---- MODULE Spec2Model ----
(***************************************************************************)
(* The read path of the joke server: the in-memory cache (jokesCache), the *)
(* bounded retry loop of fetchJokesFromDB and the GET /post handler with   *)
(* its stale-cache fallback.  Requests run concurrently on one event loop: *)
(* a handler runs without interruption between two suspension points (the  *)
(* pool.getConnection callback, the connection.query callback and the      *)
(* retry setTimeout), so there is one action per such run.                 *)
(***************************************************************************)
EXTENDS Integers, Sequences, FiniteSets, TLC

(* ------------------------------ bounds -------------------------------- *)

\* Number of request slots, i.e. of GET /post requests in flight at once.
NumRequests == 2

\* Number of times the clock advances by RETRY_DELAY in one behaviour.
MaxShortTicks == 3

\* Number of times the clock advances by CACHE_DURATION in one behaviour.
MaxLongTicks == 1

\* Date.now() when the process starts.
StartTime == 1000

\* Length of the longest list of jokes the page receives or has stored.
MaxJokes == 3

(* ------------------------- program constants -------------------------- *)

CACHE_DURATION == 5 * 60 * 1000

MAX_RETRIES == 3

RETRY_DELAY == 1000

\* The messages of the Errors the code creates.
ErrConnecting == "Error connecting to the database"

ErrFetching == "Error fetching data from the database"

ErrRetries == "Unable to connect to the database after multiple retries"

\* The Cache-Control values the handler sets; NoHeader: res.set was not called.
MaxAge300 == "public, max-age=300"

MaxAge60 == "public, max-age=60"

NoHeader == "none"

\* The "error" kinds of the two 503 bodies.
KindDatabase == "Database connection error"

KindService == "Service temporarily unavailable"

(* ----------------------------- environment ---------------------------- *)

Requests == 1 .. NumRequests

\* What 'SELECT * FROM jokes' can answer: sequences of records (by id).
ResultSets == { << >>, <<2, 1>> }

\* The amounts by which the clock advances between two events.
TickSteps == { RETRY_DELAY, CACHE_DURATION }

\* How often the clock may advance by d.
MaxTicks(d) == IF d = RETRY_DELAY THEN MaxShortTicks ELSE MaxLongTicks

VARIABLES jokesCache, now, ticks, req, held, populated, out, lastFetch, raced

vars == << jokesCache, now, ticks, req, held, populated, out, lastFetch, raced >>

\* The page (App): its React state, localStorage's cachedJokes item and the
\* progress of its one load.
VARIABLES dt, currentIndex, loading, cachedJokes, phase

appVars == << dt, currentIndex, loading, cachedJokes, phase >>

allVars == << vars, appVars >>

\* A request slot with no request in it, and the locals of a request that
\* has just entered the handler.
IdleRequest ==
    [ pc |-> "idle", retries |-> 0, attempts |-> 0, queried |-> FALSE, delays |-> 0,
      timer |-> 0, caught |-> "none" ]

NoResponse == [ status |-> 0, body |-> << >>, cacheControl |-> NoHeader, error |-> "none" ]

\* isValid() as specified: the entry is valid and younger than the TTL.
CacheIsFresh ==
    /\ jokesCache.isValid
    /\ now - jokesCache.lastUpdated[1] < CACHE_DURATION

\* The value of out after a step that sends no response.
NoOut ==
    [ id |-> 0, fresh |-> FALSE, raced |-> FALSE, kind |-> "none", fetch |-> "none", attempts |-> 0, queried |-> FALSE, delays |-> 0,
      retries |-> 0, caught |-> "none", thrown |-> "none", jokes |-> << >>,
      resp |-> NoResponse ]

\* The value of out after a step in which request r, with locals q, is
\* answered with resp: how its fetchJokesFromDB ended (fetch) and what it
\* resolved with (jokes) or threw (thrown, the message of the Error), and
\* whether the cache was fresh and raced held when the step began.
Answered(r, q, kind, fetch, thrown, jokes, resp) ==
    [ id |-> r, fresh |-> CacheIsFresh, raced |-> raced, kind |-> kind, fetch |-> fetch, attempts |-> q.attempts, queried |-> q.queried,
      delays |-> q.delays, retries |-> q.retries, caught |-> q.caught,
      thrown |-> thrown, jokes |-> jokes, resp |-> resp ]

(* ------------------------------ the cache ----------------------------- *)

\* JavaScript truthiness of jokesCache.lastUpdated: null (<< >>) and 0 are falsy.
Truthy(lastUpdated) == lastUpdated # << >> /\ lastUpdated[1] # 0

isCacheValidInclusive ==
    /\ jokesCache.isValid
    /\ Truthy(jokesCache.lastUpdated)
    /\ (now - jokesCache.lastUpdated[1]) <= CACHE_DURATION

isCacheValidReversed ==
    /\ jokesCache.isValid
    /\ Truthy(jokesCache.lastUpdated)
    /\ (now - jokesCache.lastUpdated[1]) > CACHE_DURATION

isCacheValid ==
    /\ jokesCache.isValid
    /\ Truthy(jokesCache.lastUpdated)
    /\ (now - jokesCache.lastUpdated[1]) < CACHE_DURATION

updateCacheMerge(data) ==
    [ data |-> jokesCache.data \o data, lastUpdated |-> << now >>, isValid |-> TRUE ]

updateCacheIfStale(data) ==
    IF isCacheValid
    THEN jokesCache
    ELSE [ data |-> data, lastUpdated |-> << now >>, isValid |-> TRUE ]

updateCacheKeepStamp(data) ==
    [ data |-> data, lastUpdated |-> jokesCache.lastUpdated, isValid |-> TRUE ]

updateCache(data) ==
    [ data |-> data, lastUpdated |-> << now >>, isValid |-> TRUE ]

(* ----------------------------- responses ------------------------------ *)

ServeEmpty ==
    [ status |-> 200, body |-> << >>, cacheControl |-> NoHeader, error |-> "none" ]

\* return res.json(jokesCache.data) of the cache hit: no header is set.
ServeFromCache ==
    [ status |-> 200, body |-> jokesCache.data, cacheControl |-> NoHeader, error |-> "none" ]

\* res.set('Cache-Control', 'public, max-age=300'); res.json(jokes)
ServeFresh(jokes) ==
    [ status |-> 200, body |-> jokes, cacheControl |-> MaxAge300, error |-> "none" ]

HasAnyCache == Len(jokesCache.data) >= 0

HasFreshCache == isCacheValid /\ Len(jokesCache.data) > 0

\* The test of the stale fallback.
HasStaleCache == Len(jokesCache.data) > 0

\* The catch block of the handler, for the Error with the given message.
HandleErrorInverted(message) ==
    IF HasStaleCache
    THEN [ status |-> 200, body |-> jokesCache.data, cacheControl |-> MaxAge60, error |-> "none" ]
    ELSE IF message # ErrConnecting
         THEN [ status |-> 503, body |-> << >>, cacheControl |-> NoHeader, error |-> KindDatabase ]
         ELSE [ status |-> 503, body |-> << >>, cacheControl |-> NoHeader, error |-> KindService ]

HandleError(message) ==
    IF HasStaleCache
    THEN [ status |-> 200, body |-> jokesCache.data, cacheControl |-> MaxAge60, error |-> "none" ]
    ELSE IF message = ErrConnecting
         THEN [ status |-> 503, body |-> << >>, cacheControl |-> NoHeader, error |-> KindDatabase ]
         ELSE [ status |-> 503, body |-> << >>, cacheControl |-> NoHeader, error |-> KindService ]

(* --------------------------- fetchJokesFromDB ------------------------- *)

LoopTestInclusive(q) == q.retries <= MAX_RETRIES

\* The test of the while loop.
LoopTest(q) == q.retries < MAX_RETRIES

\* One pass of the while body up to its first suspension: pool.getConnection.
StartAttempt(q) == [ q EXCEPT !.pc = "connecting", !.attempts = @ + 1 ]

\* The catch block of the loop: retries++ and the setTimeout of RETRY_DELAY.
\* timer is the time left until the timeout fires.
CatchAndDelay(q, message) ==
    [ q EXCEPT !.pc = "delay", !.retries = @ + 1, !.delays = @ + 1,
               !.timer = RETRY_DELAY, !.caught = message ]

\* The message of the Error fetchJokesFromDB throws after the loop.
ThrownAfterLoop(q) == ErrRetries

NotReleased(h) == h

\* connection.release(), on the number of connections the request holds.
Released(h) == h - 1

\* Whether a request other than r is in the handler.
OthersInFlight(r) == \E r2 \in Requests \ { r } : req[r2].pc # "idle"

(* ------------------------------ actions ------------------------------- *)
(* Besides the program's state there are three records of what happened:    *)
(* out, the response sent by the last step; lastFetch, the result and the   *)
(* time of the most recent fetch that succeeded; raced, whether an          *)
(* updateCache has run while another request was in the handler, since the  *)
(* last moment at which no request was in the handler.                      *)

\* The page before it is mounted: the useState initial values.
AppInit ==
    /\ dt = << >>
    /\ currentIndex = 0
    /\ loading = TRUE
    /\ cachedJokes = << >>
    /\ phase = "unmounted"

Init ==
    /\ AppInit
    /\ jokesCache = [ data |-> << >>, lastUpdated |-> << >>, isValid |-> FALSE ]
    /\ now = StartTime
    /\ ticks = [ d \in TickSteps |-> 0 ]
    /\ req = [ r \in Requests |-> IdleRequest ]
    /\ held = [ r \in Requests |-> 0 ]
    /\ populated = FALSE
    /\ out = NoOut
    /\ lastFetch = [ jokes |-> << >>, at |-> 0 ]
    /\ raced = FALSE

\* GET /post arrives: the cache hit, or the start of fetchJokesFromDB.
GetPost(r) ==
    /\ req[r].pc = "idle"
    /\ IF isCacheValid
       THEN /\ out' = Answered(r, req[r], "hit", "none", "none", << >>, ServeFromCache)
            /\ req' = req
       ELSE /\ req' = [ req EXCEPT ![r] = StartAttempt(@) ]
            /\ out' = NoOut
    /\ UNCHANGED << jokesCache, now, ticks, held, populated, lastFetch, raced, appVars >>

ConnectionFailInvalidates(r) ==
    /\ req[r].pc = "connecting"
    /\ req' = [ req EXCEPT ![r] = CatchAndDelay(@, ErrConnecting) ]
    /\ jokesCache' = [ jokesCache EXCEPT !.isValid = FALSE ]
    /\ out' = NoOut
    /\ UNCHANGED << now, ticks, held, populated, lastFetch, raced, appVars >>

ConnectionFailNoReject(r) ==
    /\ req[r].pc = "connecting"
    /\ req' = [ req EXCEPT ![r] = [ @ EXCEPT !.pc = "hung", !.caught = ErrConnecting ] ]
    /\ out' = NoOut
    /\ UNCHANGED << jokesCache, now, ticks, held, populated, lastFetch, raced, appVars >>

\* pool.getConnection calls back with err.
ConnectionFail(r) ==
    /\ req[r].pc = "connecting"
    /\ req' = [ req EXCEPT ![r] = CatchAndDelay(@, ErrConnecting) ]
    /\ out' = NoOut
    /\ UNCHANGED << jokesCache, now, ticks, held, populated, lastFetch, raced, appVars >>

\* pool.getConnection calls back with a connection: the query is issued.
ConnectionOk(r) ==
    /\ req[r].pc = "connecting"
    /\ req' = [ req EXCEPT ![r] = [ @ EXCEPT !.pc = "querying", !.queried = TRUE ] ]
    /\ held' = [ held EXCEPT ![r] = @ + 1 ]
    /\ out' = NoOut
    /\ UNCHANGED << jokesCache, now, ticks, populated, lastFetch, raced, appVars >>

\* connection.query calls back with error: release, reject, catch, delay.
QueryFail(r) ==
    /\ req[r].pc = "querying"
    /\ held' = [ held EXCEPT ![r] = Released(@) ]
    /\ req' = [ req EXCEPT ![r] = CatchAndDelay(@, ErrFetching) ]
    /\ out' = NoOut
    /\ UNCHANGED << jokesCache, now, ticks, populated, lastFetch, raced, appVars >>

\* connection.query calls back with results: release, resolve, and the rest
\* of the handler (updateCache, the header, res.json).
QueryOk(r) ==
    /\ req[r].pc = "querying"
    /\ held' = [ held EXCEPT ![r] = Released(@) ]
    /\ \E results \in ResultSets :
          /\ jokesCache' = updateCache(results)
          /\ out' = Answered(r, req[r], "fresh", "ok", "none", results, ServeFresh(results))
          /\ lastFetch' = [ jokes |-> results, at |-> now ]
    /\ req' = [ req EXCEPT ![r] = IdleRequest ]
    /\ populated' = TRUE
    /\ raced' = OthersInFlight(r)
    /\ UNCHANGED << now, ticks, appVars >>

\* The retry timer fires: the loop test, then the next attempt or the throw
\* after the loop, which the handler's catch block turns into a response.
DelayElapsed(r) ==
    /\ req[r].pc = "delay"
    /\ req[r].timer = 0
    /\ IF LoopTest(req[r])
       THEN /\ req' = [ req EXCEPT ![r] = StartAttempt(@) ]
            /\ out' = NoOut
            /\ raced' = raced
       ELSE LET error == ThrownAfterLoop(req[r])
                resp == HandleError(error)
            IN  /\ out' = Answered(r, req[r], IF resp.status = 200 THEN "stale" ELSE "error",
                                   "failed", error, << >>, resp)
                /\ req' = [ req EXCEPT ![r] = IdleRequest ]
                /\ raced' = (raced /\ OthersInFlight(r))
    /\ UNCHANGED << jokesCache, now, ticks, held, populated, lastFetch, appVars >>

\* Wall-clock time passes: Date.now() grows and the pending timers run down.
Tick ==
    /\ \E d \in TickSteps :
          /\ ticks[d] < MaxTicks(d)
          /\ ticks' = [ ticks EXCEPT ![d] = @ + 1 ]
          /\ now' = now + d
          /\ req' = [ r \in Requests |->
                        [ req[r] EXCEPT !.timer = IF @ > d THEN @ - d ELSE 0 ] ]
    /\ out' = NoOut
    /\ UNCHANGED << jokesCache, held, populated, lastFetch, raced, appVars >>

Next ==
    \/ \E r \in Requests : GetPost(r)
    \/ \E r \in Requests : ConnectionFail(r)
    \/ \E r \in Requests : ConnectionOk(r)
    \/ \E r \in Requests : QueryFail(r)
    \/ \E r \in Requests : QueryOk(r)
    \/ \E r \in Requests : DelayElapsed(r)
    \/ Tick

Spec == Init /\ [][Next]_allVars

\* Time passes beyond the last clock reading the model counts: the pending
\* timers run down, Date.now() is not read any further.
TimePasses ==
    /\ \A d \in TickSteps : ticks[d] = MaxTicks(d)
    /\ \E r \in Requests : req[r].timer > 0
    /\ req' = [ r \in Requests |-> [ req[r] EXCEPT !.timer = 0 ] ]
    /\ out' = NoOut
    /\ UNCHANGED << jokesCache, now, ticks, held, populated, lastFetch, raced, appVars >>

NextLive ==
    \/ Next
    \/ TimePasses

\* Every getConnection and query calls back, every timeout fires, time passes.
Fairness ==
    /\ \A r \in Requests : WF_vars(ConnectionFail(r) \/ ConnectionOk(r))
    /\ \A r \in Requests : WF_vars(QueryFail(r) \/ QueryOk(r))
    /\ \A r \in Requests : WF_vars(DelayElapsed(r))
    /\ WF_vars(Tick \/ TimePasses)

LiveSpec == Init /\ [][NextLive]_allVars /\ Fairness

(* ------------------------------ the page ------------------------------ *)

\* The number NaN.
NaN == -1

\* The records of the jokes table, by id.
Jokes == { 1, 2, 3 }

\* The non-empty lists of jokes of at most MaxJokes records.
JokeLists == UNION { [ 1 .. n -> Jokes ] : n \in 1 .. MaxJokes }

\* a % n of JavaScript on an index: NaN when a is NaN or n is 0.
JsMod(a, n) == IF a = NaN \/ n = 0 THEN NaN ELSE a % n

\* x + 1 of JavaScript on an index.
JsSucc(x) == IF x = NaN THEN NaN ELSE x + 1

\* dt as fetchData sees it: the closure of the first render, where dt is [].
ClosureDt == << >>

\* The mount effect loadInitialData, up to its await: localStorage holds
\* nothing or a list stored by an earlier visit; navigator.onLine is online.
Mount ==
    /\ phase = "unmounted"
    /\ \E stored \in { << >> } \cup { << l >> : l \in JokeLists }, online \in BOOLEAN :
          /\ cachedJokes' = stored
          /\ dt' = IF stored # << >> THEN stored[1] ELSE dt
          /\ loading' = IF online THEN stored = << >> ELSE FALSE
          /\ phase' = IF online THEN "fetching" ELSE "settled"
    /\ UNCHANGED << currentIndex, vars >>

\* axios.get resolves with response.data = data.
FetchOk ==
    /\ phase = "fetching"
    /\ \E data \in JokeLists \cup { << >> } :
          IF Len(data) > 0
          THEN dt' = data /\ cachedJokes' = << data >>
          ELSE UNCHANGED << dt, cachedJokes >>
    /\ loading' = FALSE
    /\ phase' = "settled"
    /\ UNCHANGED << currentIndex, vars >>

\* axios.get rejects (a 503, a timeout, no network): the catch block.
FetchError ==
    /\ phase = "fetching"
    /\ dt' = IF cachedJokes # << >> /\ Len(ClosureDt) = 0 THEN cachedJokes[1] ELSE dt
    /\ loading' = FALSE
    /\ phase' = "settled"
    /\ UNCHANGED << currentIndex, cachedJokes, vars >>

\* A click on "Next joke": the button is rendered once loading is false.
handleNextJoke ==
    /\ phase # "unmounted"
    /\ ~loading
    /\ currentIndex' = JsMod(JsSucc(currentIndex), Len(dt))
    /\ UNCHANGED << dt, loading, cachedJokes, phase, vars >>

AppNext ==
    \/ Mount
    \/ FetchOk
    \/ FetchError
    \/ handleNextJoke

AppSpec == Init /\ [][AppNext]_allVars

TypeOK ==
    /\ jokesCache.data \in ResultSets
    /\ now >= StartTime
    /\ \A d \in TickSteps : ticks[d] \in 0 .. MaxTicks(d)
    /\ \A r \in Requests : req[r].pc \in { "idle", "connecting", "querying", "delay" }

(* ------------------------------ claims -------------------------------- *)
(* out describes the response sent by the last step, so a state predicate   *)
(* on out speaks of the moment of that response: the cache and the clock    *)
(* are those the handler saw when it answered.                              *)

\* C1: a request that arrives while isCacheValid holds is answered at once
\* with exactly jokesCache.data, and has made no attempt, issued no query
\* and taken no delay; while the cache is valid no request starts a fetch.
C1_FastPath ==
    /\ [](out.kind = "hit" =>
             /\ jokesCache.isValid
             /\ now - jokesCache.lastUpdated[1] < CACHE_DURATION
             /\ out.resp.status = 200
             /\ out.resp.body = jokesCache.data
             /\ out.fetch = "none"
             /\ out.attempts = 0 /\ ~out.queried /\ out.delays = 0
             /\ held[out.id] = 0)
    /\ [][ (jokesCache.isValid /\ now - jokesCache.lastUpdated[1] < CACHE_DURATION)
             => \A r \in Requests :
                   req[r].pc = "idle" =>
                      /\ req'[r].pc = "idle"
                      /\ (out'.id = r => out'.kind = "hit") ]_vars

\* A hit on a cache of two records that is older than its last update.
C1_Witness ==
    /\ out.kind = "hit"
    /\ Len(out.resp.body) = 2
    /\ now > jokesCache.lastUpdated[1]

\* C2: when fetchJokesFromDB has failed terminally and the cache holds at
\* least one record, fresh or expired, the response is the cached records
\* with max-age=60 and status 200, never an error.
C2_StaleFallback ==
    (out.fetch = "failed" /\ Len(jokesCache.data) > 0) =>
        /\ out.resp = [ status |-> 200, body |-> jokesCache.data,
                        cacheControl |-> MaxAge60, error |-> "none" ]
        /\ out.kind = "stale"

\* Three failed attempts with an expired cache of two records.
C2_Witness ==
    /\ out.fetch = "failed"
    /\ out.attempts = MAX_RETRIES
    /\ Len(jokesCache.data) = 2
    /\ jokesCache.isValid
    /\ now - jokesCache.lastUpdated[1] >= CACHE_DURATION
    /\ out.kind = "stale"

\* C3: a 503 is sent only when the retries are exhausted and no fetch has
\* ever succeeded (updateCache has never run, empty result sets included).
C3_OnlyColdStartFails ==
    out.resp.status = 503 => (out.fetch = "failed" /\ ~populated)

\* C4: with an empty cache and all three attempts failing at
\* pool.getConnection, the response is the 503 "Database connection error"
\* with no records.
C4_ConnectionErrorKind ==
    (out.fetch = "failed" /\ Len(jokesCache.data) = 0 /\ ~out.queried) =>
        out.resp = [ status |-> 503, body |-> << >>,
                     cacheControl |-> NoHeader, error |-> KindDatabase ]

\* C5: with an empty cache and three failed attempts of which the last
\* failed at connection.query, the response is the 503 "Service temporarily
\* unavailable" and carries no records.
C5_GenericErrorKind ==
    (out.fetch = "failed" /\ Len(jokesCache.data) = 0 /\ out.caught = ErrFetching) =>
        /\ out.resp = [ status |-> 503, body |-> << >>,
                        cacheControl |-> NoHeader, error |-> KindService ]
        /\ out.kind = "error"

\* Three failed attempts, the last at the query, with nothing cached.
C5_Witness ==
    /\ out.fetch = "failed"
    /\ out.attempts = MAX_RETRIES
    /\ out.caught = ErrFetching
    /\ Len(jokesCache.data) = 0
    /\ out.resp.status = 503

\* C6: a cache hit carries max-age=300, and every 200 response carries
\* max-age=300 or max-age=60.
C6_HitCarriesFreshHint ==
    /\ out.kind = "hit" => out.resp.cacheControl = MaxAge300
    /\ out.resp.status = 200 => out.resp.cacheControl \in { MaxAge300, MaxAge60 }

\* C7: when an attempt k <= 3 of a cache miss resolves with R, the cache
\* becomes {data: R, lastUpdated: now, isValid: true} and the response is
\* exactly R with max-age=300.
C7_MissThenFresh ==
    out.fetch = "ok" =>
        /\ jokesCache = [ data |-> out.jokes, lastUpdated |-> << now >>, isValid |-> TRUE ]
        /\ out.resp = [ status |-> 200, body |-> out.jokes,
                        cacheControl |-> MaxAge300, error |-> "none" ]
        /\ out.kind = "fresh"
        /\ out.attempts \in 1 .. MAX_RETRIES

\* The third attempt resolves with two records.
C7_Witness ==
    /\ out.fetch = "ok"
    /\ out.attempts = MAX_RETRIES
    /\ out.jokes = <<2, 1>>

\* C8: a fetch makes at most 3 attempts, each failed one counted whether it
\* failed at getConnection or at query; it fails only after exactly 3 failed
\* attempts; a successful attempt k follows k - 1 failed ones and ends the
\* request, which makes no further attempt.
C8_BoundedRetry ==
    /\ \A r \in Requests :
          /\ req[r].attempts <= MAX_RETRIES
          /\ req[r].retries <= MAX_RETRIES
          /\ req[r].pc \in { "connecting", "querying" } => req[r].attempts = req[r].retries + 1
          /\ req[r].pc = "delay" => req[r].attempts = req[r].retries
    /\ out.fetch = "failed" => (out.attempts = MAX_RETRIES /\ out.retries = MAX_RETRIES)
    /\ out.fetch = "ok" =>
          /\ out.attempts \in 1 .. MAX_RETRIES
          /\ out.retries = out.attempts - 1
          /\ req[out.id] = IdleRequest

\* A terminal failure after failures of both kinds.
C8_Witness ==
    /\ out.fetch = "failed"
    /\ out.attempts = MAX_RETRIES
    /\ out.queried
    /\ out.caught = ErrConnecting

\* C9: a fetch that exhausts its 3 attempts has waited exactly 2 times.
C9_TwoDelays ==
    out.fetch = "failed" => out.delays = MAX_RETRIES - 1

\* C10: a request holds a connection exactly while its query is pending:
\* never more than one, none during the retry delay, when the next attempt
\* starts or when it is answered, and none when no request is in flight.
C10_HandleDiscipline ==
    /\ \A r \in Requests :
          /\ held[r] \in { 0, 1 }
          /\ held[r] = 1 <=> req[r].pc = "querying"
    /\ out.kind # "none" => held[out.id] = 0

\* A request answered by its second query, after a first query that failed.
C10_Witness ==
    /\ out.fetch = "ok"
    /\ out.caught = ErrFetching
    /\ held[out.id] = 0

\* C11: an arriving request takes the fast path if and only if the cache is
\* valid and now - lastUpdated < CACHE_DURATION (strictly); otherwise it
\* starts fetchJokesFromDB, once, with its first attempt.
C11_TtlEligibility ==
    [][ \A r \in Requests :
          (req[r].pc = "idle" /\ (req'[r].pc # "idle" \/ out'.id = r)) =>
             IF CacheIsFresh
             THEN out'.id = r /\ out'.kind = "hit" /\ req'[r].pc = "idle"
             ELSE /\ out'.kind = "none"
                  /\ req'[r] = [ IdleRequest EXCEPT !.pc = "connecting", !.attempts = 1 ] ]_vars

\* A request that arrived exactly CACHE_DURATION after the last update has
\* started its first attempt.
C11_Witness ==
    /\ jokesCache.isValid
    /\ now - jokesCache.lastUpdated[1] = CACHE_DURATION
    /\ \E r \in Requests : req[r].pc = "connecting" /\ req[r].attempts = 1

\* C12: isValid implies that lastUpdated is set and that data is the result
\* of the most recent successful fetch; isValid is false exactly until the
\* first successful fetch and never becomes false again.
C12_CacheInvariant ==
    /\ jokesCache.isValid =>
          /\ jokesCache.lastUpdated # << >>
          /\ jokesCache.data = lastFetch.jokes
    /\ jokesCache.isValid <=> populated

\* The cache holds the two records of a fetch that followed an earlier one.
C12_Witness ==
    /\ jokesCache.isValid
    /\ jokesCache.data = <<2, 1>>
    /\ jokesCache.lastUpdated[1] > StartTime
    /\ out.fetch = "ok"

\* C13: a step changes jokesCache only by the wholesale replacement that
\* follows a successful fetch; a hit, a stale fallback, a 503, a failed
\* attempt or a retry delay leaves data, lastUpdated and isValid as they were.
C13_UpdateOnlyMutator ==
    [][ /\ jokesCache' # jokesCache =>
             /\ out'.fetch = "ok"
             /\ jokesCache' = [ data |-> out'.jokes, lastUpdated |-> << now >>,
                                isValid |-> TRUE ]
        /\ out'.kind \in { "none", "hit", "stale", "error" } => jokesCache' = jokesCache ]_vars

\* A stale fallback has just been served from an unchanged, expired cache.
C13_Witness ==
    /\ out.kind = "stale"
    /\ jokesCache.data = out.resp.body
    /\ now - jokesCache.lastUpdated[1] >= CACHE_DURATION

\* C14: the Error that fetchJokesFromDB throws after its 3 attempts carries
\* the cause of the last failed attempt.
C14_CausePreserved ==
    out.fetch = "failed" => out.thrown = out.caught

\* C15: requests that saw an invalid cache each run their own fetch; the
\* last update wins, and the cache is always the untorn record of the most
\* recent successful fetch, which is what every reader serves.
C15_LastWriterWins ==
    /\ populated =>
          jokesCache = [ data |-> lastFetch.jokes, lastUpdated |-> << lastFetch.at >>,
                         isValid |-> TRUE ]
    /\ out.kind \in { "hit", "stale" } => out.resp.body = lastFetch.jokes
    /\ out.fetch = "ok" => lastFetch = [ jokes |-> out.jokes, at |-> now ]

\* Two fetches are in flight at once and a fresh cache has just been
\* replaced by the later of two racing updates.
C15_Witness ==
    /\ out.fetch = "ok"
    /\ raced
    /\ jokesCache.data = <<2, 1>>
    /\ \E r \in Requests : r # out.id /\ req[r].pc = "querying"

\* C16: every request that enters fetchJokesFromDB is eventually answered,
\* and it leaves the handler in exactly the step that sends its one response.
C16_EveryRequestAnswered ==
    /\ \A r \in Requests :
          (req[r].pc # "idle") ~> (out.id = r /\ out.kind \in { "fresh", "stale", "error" })
    /\ [][ \A r \in Requests :
             req[r].pc # "idle" =>
                ((req'[r].pc = "idle") <=> (out'.id = r /\ out'.kind # "none")) ]_vars

\* A request is answered after its retries are exhausted while another one
\* is still waiting for its retry.
C16_Witness ==
    /\ out.kind = "error"
    /\ out.attempts = MAX_RETRIES
    /\ \E r \in Requests : r # out.id /\ req[r].pc = "delay"

\* C17: a response with max-age=60 is sent only when the cache is not valid
\* at that moment.
C17_StaleOnlyWhenExpired ==
    out.resp.cacheControl = MaxAge60 => ~CacheIsFresh

\* C17, amended: a response with max-age=60 is sent only after the request's
\* own fetch failed terminally with at least one record cached; the cache is
\* valid at that moment only if an updateCache has run while another request
\* was in the handler.
C17_StaleOnlyWhenExpiredOrRaced ==
    out.resp.cacheControl = MaxAge60 =>
        /\ out.fetch = "failed"
        /\ out.attempts = MAX_RETRIES
        /\ Len(jokesCache.data) > 0
        /\ out.resp.body = jokesCache.data
        /\ CacheIsFresh => out.raced

\* A stale response served from a cache that a concurrent request refreshed.
C17_Witness ==
    /\ out.resp.cacheControl = MaxAge60
    /\ CacheIsFresh
    /\ out.raced

\* C18: every updateCache runs in a state where the cache is not valid.
C18_NoUpdateWhileFresh ==
    out.fetch = "ok" => ~out.fresh

\* C18, amended: updateCache replaces a fresh cache only if an updateCache
\* has run while another request was in the handler (racing misses); and a
\* fast-path response carries the data of the most recent update, so two of
\* them with no update in between carry the same data.
C18_UpdateWhileFreshOnlyWhenRaced ==
    /\ (out.fetch = "ok" /\ out.fresh) => out.raced
    /\ out.kind = "hit" => (out.fresh /\ out.resp.body = lastFetch.jokes)

\* A fresh cache has just been replaced by the update of a racing request.
C18_Witness ==
    /\ out.fetch = "ok"
    /\ out.fresh
    /\ out.raced

\* C19: currentIndex is always a valid index: never NaN, and whenever dt is
\* non-empty 0 <= currentIndex < dt.length, so dt[currentIndex] exists.
C19_IndexInRange ==
    /\ currentIndex # NaN
    /\ Len(dt) > 0 => currentIndex \in 0 .. Len(dt) - 1

====
